---- MODULE Spec2Model ----
(***************************************************************************)
(* seagliderOG1.fetchers: load_dataset and its helpers, as a state machine.*)
(*                                                                         *)
(* One run of load_dataset(source, start_profile, end_profile) is modelled *)
(* from the source check to the return (or the exception that ends it).    *)
(* The environment of a run (what the directory listing returns, what each *)
(* file holds) is fixed by Init and never changes during the run.          *)
(*                                                                         *)
(* A dataset (xarray.Dataset) is a function from variable names to         *)
(* variables; a variable is [dims, shape, data, attrs] with data the flat  *)
(* (row-major) sequence of its values.  The dimensions of a dataset are    *)
(* derived from its variables, as in xarray.                               *)
(*                                                                         *)
(* Values: sample times, fix times, latitudes, longitudes and trajectory   *)
(* identifiers read from files are naturals (no missing value is read from *)
(* a file); NaN is the value np.full(..., np.nan) fills new arrays with.   *)
(***************************************************************************)
EXTENDS Integers, Sequences, FiniteSets, TLC

(* ------------------------------ bounds -------------------------------- *)
MaxN == 3          \* most samples on the measurement axis of a varied dive
MaxF == 2          \* most fixes on the fix axis of a varied dive
MaxT == 2          \* sample times and fix times range over 0..MaxT
MaxFiles == 3      \* longest varied directory listing
MaxK == 2          \* most samples of a dive in the varied two-dive runs

(* ------------------------------ values -------------------------------- *)
NaN == -1                          \* np.nan
None == <<>>                       \* Python None for an optional int
Some(n) == <<n>>                   \* a supplied int

SG == "sg_data_point"              \* the measurement axis
GPS == "gps_info"                  \* the fix axis

Min(a, b) == IF a <= b THEN a ELSE b
Abs(x) == IF x < 0 THEN -x ELSE x  \* np.abs

(* ---------------------------- file names ------------------------------ *)
\* A file name is the sequence of its characters.
DigitVal == ("0" :> 0) @@ ("1" :> 1) @@ ("2" :> 2) @@ ("3" :> 3) @@ ("4" :> 4)
            @@ ("5" :> 5) @@ ("6" :> 6) @@ ("7" :> 7) @@ ("8" :> 8) @@ ("9" :> 9)

RECURSIVE DecimalValue(_)
DecimalValue(s) ==
    IF s = <<>> THEN 0
    ELSE 10 * DecimalValue(SubSeq(s, 1, Len(s) - 1)) + DigitVal[s[Len(s)]]

\* int(s) of Python for a str: an optional sign, then one or more digits;
\* anything else raises ValueError (ok = FALSE).
ParseInt(s) ==
    LET signed == s # <<>> /\ s[1] \in {"+", "-"}
        body == IF signed THEN Tail(s) ELSE s
    IN  IF body = <<>> \/ \E k \in 1..Len(body) : body[k] \notin DOMAIN DigitVal
        THEN [ok |-> FALSE, val |-> 0]
        ELSE [ok |-> TRUE,
              val |-> IF signed /\ s[1] = "-" THEN -DecimalValue(body)
                      ELSE DecimalValue(body)]

\* str.endswith
EndsWith(s, suf) ==
    Len(s) >= Len(suf) /\ SubSeq(s, Len(s) - Len(suf) + 1, Len(s)) = suf

\* s.split(sep)[0]: the part before the first sep, all of s when there is none
SplitFirst(s, sep) ==
    IF \E k \in 1..Len(s) : s[k] = sep
    THEN LET k == CHOOSE k \in 1..Len(s) :
                     s[k] = sep /\ \A m \in 1..(k - 1) : s[m] # sep
         IN  SubSeq(s, 1, k - 1)
    ELSE s

\* s[n:]
DropFirst(s, n) == SubSeq(s, n + 1, Len(s))

DotNc == <<".", "n", "c">>

\* int(file.split("_")[0][4:])
ProfileNumberFromThird(file) == ParseInt(DropFirst(SplitFirst(file, "_"), 3))
ProfileNumber(file) == ParseInt(DropFirst(SplitFirst(file, "_"), 4))

\* the range test of one file, given its parsed profile number
InRangeTruthy(p, start_profile, end_profile) ==
    LET hasStart == start_profile # None /\ start_profile[1] # 0
        hasEnd == end_profile # None /\ end_profile[1] # 0
    IN  IF hasStart /\ hasEnd
        THEN start_profile[1] <= p /\ p <= end_profile[1]
        ELSE IF hasStart THEN p >= start_profile[1]
        ELSE IF hasEnd THEN p <= end_profile[1]
        ELSE TRUE
InRange(p, start_profile, end_profile) ==
    IF start_profile # None /\ end_profile # None
    THEN start_profile[1] <= p /\ p <= end_profile[1]
    ELSE IF start_profile # None THEN p >= start_profile[1]
    ELSE IF end_profile # None THEN p <= end_profile[1]
    ELSE TRUE

\* the names of the modelled directory
F5 == <<"p", "0", "1", "5", "0", "5", "_", "a", ".", "n", "c">>
F15 == <<"p", "0", "1", "5", "1", "5", "_", "b", ".", "n", "c">>
F25 == <<"p", "0", "1", "5", "2", "5", "_", "c", ".", "n", "c">>
FTxt == <<"p", "0", "1", "5", "x", "x", "_", "d", ".", "t", "x", "t">>
FBad == <<"p", "0", "1", "5", "x", "x", "_", "e", ".", "n", "c">>
NcNames == {F5, F15, F25}

\* further names: one of the registry, a signed number, no "_", a short name
F500 ==
    <<"p", "0", "1", "5", "0", "5", "0", "0", "_", "2", "0", "0", "5", "0", "2", "1", "3", ".", "n", "c">>
FNeg == <<"p", "0", "1", "5", "-", "3", "_", "f", ".", "n", "c">>
FNoSep == <<"p", "0", "1", "5", "0", "0", "0", "7", ".", "n", "c">>
FShort == <<"a", "_", "g", ".", "n", "c">>
NameCases == {F500, FNeg, FNoSep, FShort}
AllNames == NcNames \cup {FTxt, FBad}

(* ------------------------------ datasets ------------------------------ *)
NoAttrs == [a \in {} |-> ""]
Var(dims, shape, data, attrs) ==
    [dims |-> dims, shape |-> shape, data |-> data, attrs |-> attrs]

\* a constant 1-D float array: np.full(n, x)
Full(n, x) == [k \in 1..n |-> x]

UsesDim(v, d) == \E k \in 1..Len(v.dims) : v.dims[k] = d

\* set(ds.dims)
DimsOf(ds) == {d \in {SG, GPS, "trajectory", "gc_event", "bin"} :
                  \E n \in DOMAIN ds : UsesDim(ds[n], d)}

\* ds.dims[d], for d in set(ds.dims)
DimSize(ds, d) ==
    LET n == CHOOSE n \in DOMAIN ds : UsesDim(ds[n], d)
        k == CHOOSE k \in 1..Len(ds[n].dims) : ds[n].dims[k] = d
    IN  ds[n].shape[k]

\* ds[name] = value: the variable is added, or replaces the one of that name
SetVar(ds, name, v) == (name :> v) @@ ds

(* ---------------------- repeat_trajectory_vars ------------------------ *)
\* numpy assignment a[:] = b into a 1-D array of n elements: b is a scalar,
\* has one element, or has n elements; any other shape raises ValueError.
CanBroadcast(shape, n) ==
    \/ shape = <<>>
    \/ Len(shape) = 1 /\ (shape[1] = 1 \/ shape[1] = n)

Broadcast(shape, data, n) ==
    IF Len(shape) = 1 /\ shape[1] = n THEN data ELSE Full(n, data[1])

\* the exception repeat_trajectory_vars raises on ds, "none" when it returns
RepeatError(ds) ==
    IF "trajectory" \notin DOMAIN ds THEN "KeyError"
    ELSE IF "comment" \notin DOMAIN ds["trajectory"].attrs THEN "KeyError"
    ELSE IF SG \notin DimsOf(ds) THEN "KeyError"
    ELSE IF ~CanBroadcast(ds["trajectory"].shape, DimSize(ds, SG))
         THEN "ValueError"
    ELSE "none"

\* the dataset repeat_trajectory_vars returns when it raises nothing
RepeatNoComment(ds) ==
    LET trajectory_var == ds["trajectory"]
        n == DimSize(ds, SG)
    IN  SetVar(ds, "trajectory",
               Var(<<SG>>, <<n>>,
                   Broadcast(trajectory_var.shape, trajectory_var.data, n),
                   NoAttrs))
RepeatTrajectoryVars(ds) ==
    LET trajectory_var == ds["trajectory"]
        trajectory_comment == trajectory_var.attrs["comment"]
        n == DimSize(ds, SG)
    IN  SetVar(ds, "trajectory",
               Var(<<SG>>, <<n>>,
                   Broadcast(trajectory_var.shape, trajectory_var.data, n),
                   [a \in {"comment"} |-> trajectory_comment]))

(* ------------------------ add_gps_coordinates ------------------------- *)
\* np.abs(ds['ctd_time'] - gps_time)
TimeDiffSigned(ctd_time, gps_time) ==
    [k \in 1..Len(ctd_time) |-> ctd_time[k] - gps_time]
TimeDiff(ctd_time, gps_time) ==
    [k \in 1..Len(ctd_time) |-> Abs(ctd_time[k] - gps_time)]

\* argmin of a non-empty array: the first position of the least value
ArgMinLast(a) ==
    CHOOSE k \in 1..Len(a) :
        /\ \A m \in 1..Len(a) : a[k] <= a[m]
        /\ \A m \in (k + 1)..Len(a) : a[m] # a[k]
ArgMin(a) ==
    CHOOSE k \in 1..Len(a) :
        /\ \A m \in 1..Len(a) : a[k] <= a[m]
        /\ \A m \in 1..(k - 1) : a[m] # a[k]

\* find_nearest_index(ds, gps_time), 1-based
FindNearestIndex(ds, gps_time) == ArgMin(TimeDiff(ds["ctd_time"].data, gps_time))

\* the three new arrays of add_gps_coordinates
GpsNewVarsBare(ds) ==
    LET n == DimSize(ds, SG)
        fresh == Var(<<SG>>, <<n>>, Full(n, NaN), NoAttrs)
        bare == [v \in DOMAIN ds |-> [ds[v] EXCEPT !.attrs = NoAttrs]]
    IN  SetVar(SetVar(SetVar(bare, "gps_lat", fresh), "gps_lon", fresh),
               "gps_time", fresh)
GpsNewVarsZero(ds) ==
    LET n == DimSize(ds, SG)
        fresh == Var(<<SG>>, <<n>>, Full(n, 0), NoAttrs)
    IN  SetVar(SetVar(SetVar(ds, "gps_lat", fresh), "gps_lon", fresh),
               "gps_time", fresh)
GpsNewVars(ds) ==
    LET n == DimSize(ds, SG)
        fresh == Var(<<SG>>, <<n>>, Full(n, NaN), NoAttrs)
    IN  SetVar(SetVar(SetVar(ds, "gps_lat", fresh), "gps_lon", fresh),
               "gps_time", fresh)

\* ds[name][index] = value
SetItemIfMissing(ds, name, index, value) ==
    IF ds[name].data[index] = NaN THEN [ds EXCEPT ![name].data[index] = value]
    ELSE ds
SetItem(ds, name, index, value) ==
    [ds EXCEPT ![name].data[index] = value]

\* the number of iterations of zip(log_gps_time, log_gps_lat, log_gps_lon)
ZipLen(ds) ==
    Min(Len(ds["log_gps_time"].data),
        Min(Len(ds["log_gps_lat"].data), Len(ds["log_gps_lon"].data)))

(* ---------------------------- drop_dims ------------------------------- *)
\* ds.drop_dims(drop): the variables that use a dimension of drop are removed
DropDimsAllButSG(ds, drop) ==
    [n \in {n \in DOMAIN ds : UsesDim(ds[n], SG)} |-> ds[n]]
DropDims(ds, drop) ==
    [n \in {n \in DOMAIN ds : \A d \in drop : ~UsesDim(ds[n], d)} |-> ds[n]]

(* ------------------------------ xr.concat ----------------------------- *)
\* the length a dataset contributes to the concatenation along sg_data_point
ConcatLen(ds) == IF SG \in DimsOf(ds) THEN DimSize(ds, SG) ELSE 1

\* the values variable name of ds contributes: its data, a dimensionless
\* variable repeated along the axis, missing values when ds has no such variable
ExpandVar(ds, name) ==
    IF name \notin DOMAIN ds THEN Full(ConcatLen(ds), NaN)
    ELSE IF ds[name].dims = <<>> THEN Full(ConcatLen(ds), ds[name].data[1])
    ELSE ds[name].data

RECURSIVE ConcatData(_, _)
ConcatData(dss, name) ==
    IF dss = <<>> THEN <<>>
    ELSE ExpandVar(Head(dss), name) \o ConcatData(Tail(dss), name)

\* xr.concat(datasets, dim="sg_data_point") of a non-empty list of datasets
\* whose variables have no dimension but sg_data_point
ConcatReversed(dss) ==
    LET rev == [k \in 1..Len(dss) |-> dss[Len(dss) + 1 - k]]
    IN  [name \in UNION {DOMAIN dss[k] : k \in 1..Len(dss)} |->
            LET data == ConcatData(rev, name)
            IN  Var(<<SG>>, <<Len(data)>>, data, NoAttrs)]
Concat(dss) ==
    [name \in UNION {DOMAIN dss[k] : k \in 1..Len(dss)} |->
        LET first == CHOOSE k \in 1..Len(dss) :
                        /\ name \in DOMAIN dss[k]
                        /\ \A m \in 1..(k - 1) : name \notin DOMAIN dss[m]
            data == ConcatData(dss, name)
        IN  Var(<<SG>>, <<Len(data)>>, data, dss[first][name].attrs)]

(* ------------------------------- sortby ------------------------------- *)
\* perm holds indices in ascending key order; x goes after every index whose
\* key is less than or equal to its own, so equal keys keep their order
InsertAfterEqual(perm, x, keys) ==
    LET pos == Cardinality({k \in 1..Len(perm) : keys[perm[k]] <= keys[x]})
    IN  SubSeq(perm, 1, pos) \o <<x>> \o SubSeq(perm, pos + 1, Len(perm))
InsertBeforeEqual(perm, x, keys) ==
    LET pos == Cardinality({k \in 1..Len(perm) : keys[perm[k]] < keys[x]})
    IN  SubSeq(perm, 1, pos) \o <<x>> \o SubSeq(perm, pos + 1, Len(perm))

RECURSIVE SortPermUpTo(_, _)
SortPermUpTo(keys, n) ==
    IF n = 0 THEN <<>> ELSE InsertAfterEqual(SortPermUpTo(keys, n - 1), n, keys)

RECURSIVE SortPermUnstable(_, _)
SortPermUnstable(keys, n) ==
    IF n = 0 THEN <<>>
    ELSE InsertBeforeEqual(SortPermUnstable(keys, n - 1), n, keys)

\* np.lexsort of one key: the stable ascending permutation
ArgSortUnstable(keys) == SortPermUnstable(keys, Len(keys))
ArgSortIdentity(keys) == [k \in 1..Len(keys) |-> k]
ArgSort(keys) == SortPermUpTo(keys, Len(keys))

TakeFirstOnly(data, perm) == [k \in 1..Len(perm) |-> data[perm[1]]]
Take(data, perm) == [k \in 1..Len(perm) |-> data[perm[k]]]

\* ds.sortby(name): every variable along sg_data_point is reordered alike
SortByNothing(ds, name) == ds
SortByKeyOnly(ds, name) ==
    [ds EXCEPT ![name].data = Take(@, ArgSort(@))]
SortBy(ds, name) ==
    LET perm == ArgSort(ds[name].data)
    IN  [n \in DOMAIN ds |->
            IF UsesDim(ds[n], SG) THEN [ds[n] EXCEPT !.data = Take(@, perm)]
            ELSE ds[n]]

(* ------------------------------ the files ----------------------------- *)
SeqsUpTo(S, n) == UNION {[1..m -> S] : m \in 0..n}

TrajAttrs(c) == ("comment" :> c) @@ ("long_name" :> "dive number")
TrajAttrsNoComment == ("long_name" :> "dive number")

\* variables a dive file may hold besides the ones load_dataset reads
ScalarVar == ("log_D_TGT" :> Var(<<>>, <<>>, <<30>>, NoAttrs))
GcVar == ("gc_st_secs" :> Var(<<"gc_event">>, <<2>>, <<1, 2>>, NoAttrs))
TwoDVar(n) == ("spectra" :> Var(<<SG, "bin">>, <<n, 2>>, Full(2 * n, 7), NoAttrs))
SalinityVar(n) == ("salinity" :> Var(<<SG>>, <<n>>, Full(n, 35), NoAttrs))
NoVars == [n \in {} |-> 0]

\* a dive file: sample times ctd, the fix axis (gt, glat, glon), the
\* trajectory variable and further variables
Dive(ctd, gt, glat, glon, trajvar, extras) ==
    ("ctd_time" :> Var(<<SG>>, <<Len(ctd)>>, ctd, NoAttrs))
    @@ ("temperature" :> Var(<<SG>>, <<Len(ctd)>>, [k \in 1..Len(ctd) |-> k], NoAttrs))
    @@ ("log_gps_time" :> Var(<<GPS>>, <<Len(gt)>>, gt, NoAttrs))
    @@ ("log_gps_lat" :> Var(<<GPS>>, <<Len(glat)>>, glat, NoAttrs))
    @@ ("log_gps_lon" :> Var(<<GPS>>, <<Len(glon)>>, glon, NoAttrs))
    @@ trajvar @@ extras

Traj(values, attrs) ==
    ("trajectory" :> Var(<<"trajectory">>, <<Len(values)>>, values, attrs))
TrajScalar(v, attrs) == ("trajectory" :> Var(<<>>, <<>>, <<v>>, attrs))

Lats(f) == [k \in 1..f |-> 10 * k]
Lons(f) == [k \in 1..f |-> 10 * k + 5]

File(ds) == [readable |-> TRUE, ds |-> ds]
Unreadable == [readable |-> FALSE, ds |-> NoVars]

\* the keys of data_source_og.registry
Registry == {F5, F15, F500}

(* ---------------------------- vocabularies ---------------------------- *)
\* a Python dict display: a key given twice keeps its last value
DictOf(items) ==
    [key \in {items[k][1] : k \in 1..Len(items)} |->
        LET last == CHOOSE k \in 1..Len(items) :
                       /\ items[k][1] = key
                       /\ \A m \in (k + 1)..Len(items) : items[m][1] # key
        IN  items[last][2]]

\* a conversion to units_name by the factor num / den
Conv(units_name, num, den) == [units_name |-> units_name, num |-> num, den |-> den]

dims_rename_dict == DictOf(<< <<"sg_data_point", "N_MEASUREMENTS">> >>)
preferred_units == <<"m s-1", "dbar", "S m-1">>
unit_str_format ==
    DictOf(<< <<"m/s", "m s-1">>, <<"cm/s", "cm s-1">>, <<"S/m", "S m-1">>,
              <<"meters", "m">>, <<"degrees_Celcius", "Celcius">> >>)
\* the key-value pairs of the dict display of unit_conversion, as written
unit_conversion_items ==
    <<        <<"cm/s", Conv("m/s", 1, 100)>>,
              <<"cm s-1", Conv("m s-1", 1, 100)>>,
              <<"m/s", Conv("cm/s", 100, 1)>>,
              <<"m s-1", Conv("cm s-1", 100, 1)>>,
              <<"S/m", Conv("mS/cm", 1, 10)>>,
              <<"S m-1", Conv("mS cm-1", 1, 10)>>,
              <<"mS/cm", Conv("S/m", 10, 1)>>,
              <<"mS cm-1", Conv("S m-1", 10, 1)>>,
              <<"dbar", Conv("Pa", 10000, 1)>>,
              <<"Pa", Conv("dbar", 1, 10000)>>,
              <<"dbar", Conv("kPa", 10, 1)>> >>
unit_conversion == DictOf(unit_conversion_items)
standard_names ==
    DictOf(<< <<"latitude", "LATITUDE">>, <<"longitude", "LONGITUDE">>,
              <<"gps_lat", "LATITUDE_GPS">>, <<"gps_lon", "LONGITUDE_GPS">>,
              <<"gps_time", "TIME_GPS">>, <<"ctd_time", "TIME">>,
              <<"eng_pitchAng", "PITCH">>, <<"eng_rollAng", "ROLL">>,
              <<"eng_head", "HEADING">>, <<"ctd_depth", "DEPTH">>,
              <<"pressure", "PRES">>, <<"conductivity", "CNDC">>,
              <<"temperature", "TEMP">>, <<"salinity", "PSAL">>,
              <<"ctd_density", "POTDENS0">>,
              <<"profile_index", "PROFILE_NUMBER">>,
              <<"vert_speed", "GLIDER_VERT_VELO_MODEL">>,
              <<"horz_speed", "GLIDER_HORZ_VELO_MODEL">>,
              <<"speed", "GLIDE_SPEED">>, <<"glide_angle", "GLIDE_ANGLE">> >>)
vars_to_remove ==
    <<"dissolved_oxygen_sat", "depth", "eng_depth", "eng_elaps_t",
      "eng_elaps_t_0000", "latitude_gsm", "longitude_gsm", "sigma_t",
      "sigma_theta", "sound_velocity", "theta", "time", "eng_sbect_condFreq",
      "eng_sbect_tempFreq", "glide_angle_gsm", "horz_speed_gsm",
      "north_displacement_gsm", "east_displacement_gsm", "speed_gsm",
      "vert_speed_gsm", "dive_num_cast", "density">>
order_of_attr ==
    <<"title", "id", "platform_vocabulary", "platform", "PLATFORM_SERIAL_NUMBER",
      "naming_authority", "institution", "internal_mission_identifier",
      "geospatial_lat_min", "geospatial_lat_max", "geospatial_lon_min",
      "geospatial_lon_max", "geospatial_vertical_min", "geospatial_vertical_max",
      "time_coverage_start", "time_coverage_end", "site", "site_vocabulary",
      "program", "program_vocabulary", "project", "network", "contributor_name",
      "contributor_email", "contributor_id", "contributor_role_vocabular",
      "contributing_institutions", "contributing_institutions_vocabulary",
      "contributing_institutions_role",
      "contributing_institutions_role_vocabulary", "uri", "data_url", "doi",
      "rtqc_method", "rtqc_method_doi", "web_link", "comment", "start_date",
      "date_created", "featureType", "Conventions">>

\* the documents yaml.safe_load reads at import; each stands for its content
vocab_attrs == "OG1_vocab_attrs.yaml"
sensor_vocabs == "OG1_sensor_attrs.yaml"
global_attrs == "OG1_global_attrs.yaml"

\* the module-level tables of seagliderOG1.vocabularies once it is imported
Vocabularies ==
    [dims_rename_dict |-> dims_rename_dict,
     preferred_units |-> preferred_units,
     unit_str_format |-> unit_str_format,
     unit_conversion |-> unit_conversion,
     standard_names |-> standard_names,
     vars_to_remove |-> vars_to_remove,
     order_of_attr |-> order_of_attr,
     vocab_attrs |-> vocab_attrs,
     sensor_vocabs |-> sensor_vocabs,
     global_attrs |-> global_attrs]

(* ------------------------------- state -------------------------------- *)
VARIABLES
    source,          \* the source argument: "http", "https", "dir" or "other"
    listing,         \* what listing the source returns
    start_profile,   \* the start_profile argument
    end_profile,     \* the end_profile argument
    disk,            \* what each file with the expected extension holds
    vocab,           \* the tables of seagliderOG1.vocabularies
    remote,          \* what the remote servers do: "answers", "listing_silent",
                     \* "listing_error" or "fetch_silent"
    pc,              \* where the run is
    file_list,       \* load_dataset's file_list
    i,               \* position of the first loop in file_list
    profile_number,  \* load_dataset's profile_number, None before the first
    filtered_files,  \* load_dataset's filtered_files
    datasets,        \* load_dataset's datasets
    ds,              \* the dive record in hand
    gi,              \* position of add_gps_coordinates' loop on the fix axis
    written,         \* nearest_index of each fix of the dive in hand, in order
    ds_all,          \* load_dataset's ds_all
    result,          \* <<the dataset returned>>, <<>> while nothing is returned
    err              \* the exception that ended the run

env == <<source, listing, start_profile, end_profile, disk, vocab, remote>>
vars == <<source, listing, start_profile, end_profile, disk, vocab, remote, pc,
          file_list, i, profile_number, filtered_files, datasets, ds, gi,
          written, ds_all, result, err>>

\* an exception: its class, the function that raised it (the innermost frame
\* of the traceback), and the file name its message holds, None when none
NoErr == [exc |-> "none", at |-> "none", file |-> None]
Exc(e, at) == [exc |-> e, at |-> at, file |-> None]
ExcNaming(e, at, file) == [exc |-> e, at |-> at, file |-> file]

IsUrl(src) == src \in {"http", "https"}     \* source.startswith("http[s]://")
IsDirUnchecked(src) == ~IsUrl(src)
IsDir(src) == src = "dir"                   \* os.path.isdir(source)

(* --------------------------- environments ----------------------------- *)
\* the state a run starts in: its arguments, the directory, nothing done yet
StartOn(rm, src, lst, sp, ep, dk) ==
    /\ remote = rm
    /\ source = src
    /\ listing = lst
    /\ start_profile = sp
    /\ end_profile = ep
    /\ disk = dk
    /\ vocab = Vocabularies
    /\ pc = "source"
    /\ file_list = <<>>
    /\ i = 1
    /\ profile_number = None
    /\ filtered_files = <<>>
    /\ datasets = <<>>
    /\ ds = NoVars
    /\ gi = 1
    /\ written = <<>>
    /\ ds_all = NoVars
    /\ result = <<>>
    /\ err = NoErr
Start(src, lst, sp, ep, dk) == StartOn("answers", src, lst, sp, ep, dk)

Without(d, name) == [n \in DOMAIN d \ {name} |-> d[n]]

\* one dive, every sample-time and fix-time sequence within the bounds
InitGps ==
    \E ctd \in SeqsUpTo(0..MaxT, MaxN), gt \in SeqsUpTo(0..MaxT, MaxF) :
        Start("dir", <<F15>>, None, None,
              (F15 :> File(Dive(ctd, gt, Lats(Len(gt)), Lons(Len(gt)),
                                Traj(<<15>>, TrajAttrs("c15")), NoVars))))

\* one dive, every form of the trajectory variable within the bounds
TrajVars ==
    {Traj(vals, attrs) : vals \in SeqsUpTo({7, 8}, MaxN + 1),
                         attrs \in {TrajAttrs("c7"), TrajAttrsNoComment}}
    \cup {TrajScalar(7, TrajAttrs("c7")), NoVars}
InitTraj ==
    \E n \in 0..MaxN, tv \in TrajVars :
        Start("dir", <<F15>>, None, None,
              (F15 :> File(Dive([k \in 1..n |-> k - 1], <<0>>, <<10>>, <<15>>,
                                tv, NoVars))))

\* dives that lack a variable load_dataset reads, or the measurement axis
InitLack ==
    \/ \E name \in {"ctd_time", "log_gps_time", "log_gps_lat", "log_gps_lon"},
          gt \in {<<>>, <<1>>} :
          Start("dir", <<F15>>, None, None,
                (F15 :> File(Without(Dive(<<0, 1>>, gt, Lats(Len(gt)), Lons(Len(gt)),
                                          Traj(<<15>>, TrajAttrs("c15")), NoVars),
                                     name))))
    \/ Start("dir", <<F15>>, None, None,
             (F15 :> File(Without(Without(Dive(<<>>, <<1>>, <<10>>, <<15>>,
                                               Traj(<<15>>, TrajAttrs("c15")),
                                               ScalarVar),
                                          "ctd_time"), "temperature"))))

\* one or two dives, every set of further variables
Extras(a, b, c, n) ==
    (IF a THEN ScalarVar ELSE NoVars) @@ (IF b THEN GcVar ELSE NoVars)
    @@ (IF c THEN TwoDVar(n) ELSE NoVars)
InitDims ==
    \E lst \in {<<F15>>, <<F5, F15>>}, a \in BOOLEAN, b \in BOOLEAN, c \in BOOLEAN :
        Start("dir", lst, None, None,
              (F5 :> File(Dive(<<1>>, <<1>>, <<10>>, <<15>>,
                               Traj(<<5>>, TrajAttrs("c5")), Extras(a, b, c, 1))))
              @@ (F15 :> File(Dive(<<0, 2>>, <<>>, <<>>, <<>>,
                                   Traj(<<15>>, TrajAttrs("c15")), Extras(a, b, c, 2)))))

\* every listing, source and profile range within the bounds, over fixed dives
SelDive5 == Dive(<<1, 2>>, <<2>>, <<10>>, <<15>>, Traj(<<5>>, TrajAttrs("c5")), NoVars)
SelDive15 == Dive(<<0, 2>>, <<0>>, <<20>>, <<25>>, Traj(<<15>>, TrajAttrs("c15")), NoVars)
SelDive25 == Dive(<<2>>, <<>>, <<>>, <<>>, Traj(<<25>>, TrajAttrs("c25")), NoVars)
Listings == {l \in SeqsUpTo(AllNames, MaxFiles) :
                \A a, b \in 1..Len(l) : a # b => l[a] # l[b]}
Bounds == {None, Some(0), Some(10), Some(15), Some(20)}
InitSel ==
    \E src \in {"https", "dir", "other"}, lst \in Listings, sp \in Bounds,
       ep \in Bounds, f25 \in {File(SelDive25), Unreadable} :
        Start(src, lst, sp, ep,
              (F5 :> File(SelDive5)) @@ (F15 :> File(SelDive15)) @@ (F25 :> f25))

\* two dives in either listing order, every pair of sample-time sequences
\* (the second file's one sample shorter)
MultiDive(p, ctd) ==
    Dive(ctd, IF ctd = <<>> THEN <<>> ELSE <<1>>, IF ctd = <<>> THEN <<>> ELSE <<p>>,
         IF ctd = <<>> THEN <<>> ELSE <<p + 1>>,
         Traj(<<p>>, TrajAttrs("c")), NoVars)
InitMulti ==
    \E lst \in {<<F5, F15>>, <<F15, F5>>},
       c5 \in SeqsUpTo(0..MaxT, MaxK), c15 \in SeqsUpTo(0..MaxT, MaxK - 1) :
        Start("dir", lst, None, None,
              (F5 :> File(MultiDive(5, c5))) @@ (F15 :> File(MultiDive(15, c15))))

\* two dives in either listing order, each with or without a salinity variable
InitVarSets ==
    \E lst \in {<<F5, F15>>, <<F15, F5>>}, s5 \in BOOLEAN, s15 \in BOOLEAN :
        Start("dir", lst, None, None,
              (F5 :> File(Dive(<<1, 2>>, <<2>>, <<10>>, <<15>>,
                               Traj(<<5>>, TrajAttrs("c5")),
                               IF s5 THEN SalinityVar(2) ELSE NoVars)))
              @@ (F15 :> File(Dive(<<0>>, <<>>, <<>>, <<>>,
                                   Traj(<<15>>, TrajAttrs("c15")),
                                   IF s15 THEN SalinityVar(1) ELSE NoVars))))

\* every listing of up to MaxK of the further names, over fixed dives
InitNames ==
    \E lst \in SeqsUpTo(NameCases, MaxK), sp \in {None, Some(0)} :
        /\ \A a, b \in 1..Len(lst) : a # b => lst[a] # lst[b]
        /\ Start("dir", lst, sp, None,
                 (F500 :> File(SelDive5)) @@ (FNeg :> File(SelDive15))
                 @@ (FNoSep :> File(SelDive25)) @@ (FShort :> File(SelDive25)))

\* two dives of three and two samples with one fix each, in either order
DiveA == Dive(<<100, 200, 300>>, <<150>>, <<10>>, <<20>>,
              Traj(<<5>>, TrajAttrs("c5")), NoVars)
DiveB == Dive(<<50, 250>>, <<60>>, <<30>>, <<40>>,
              Traj(<<15>>, TrajAttrs("c15")), NoVars)
TwoDives == (F5 :> File(DiveA)) @@ (F15 :> File(DiveB))
InitTwoDives ==
    \E lst \in {<<F5, F15>>, <<F15, F5>>} : Start("dir", lst, None, None, TwoDives)

\* a remote source whose server, or the server of the registry, fails
InitRemote ==
    \E rm \in {"listing_silent", "listing_error", "fetch_silent"},
       src \in {"http", "https"}, lst \in {<<F5, FTxt>>, <<F15, F5>>} :
        StartOn(rm, src, lst, None, None,
                (F5 :> File(SelDive5)) @@ (F15 :> File(SelDive15)))

Init ==
    InitGps \/ InitTraj \/ InitLack \/ InitDims \/ InitSel \/ InitMulti
    \/ InitVarSets \/ InitNames \/ InitTwoDives \/ InitRemote

(* ------------------------------ actions ------------------------------- *)
\* the exception ends the run: nothing is returned
RaisePartial(e, at) ==
    /\ pc' = "error"
    /\ err' = Exc(e, at)
    /\ result' = IF datasets = <<>> THEN <<>> ELSE <<Concat(datasets)>>
    /\ UNCHANGED <<file_list, i, profile_number, filtered_files, datasets, ds,
                   gi, written, ds_all>>
Raise(e, at) ==
    /\ pc' = "error"
    /\ err' = Exc(e, at)
    /\ UNCHANGED <<file_list, i, profile_number, filtered_files, datasets, ds,
                   gi, written, ds_all, result>>
\* the same, for an exception whose message holds the name of the file
RaiseNaming(e, at, file) ==
    /\ pc' = "error"
    /\ err' = ExcNaming(e, at, file)
    /\ UNCHANGED <<file_list, i, profile_number, filtered_files, datasets, ds,
                   gi, written, ds_all, result>>

\* list_files_in_https_server: the targets that end in .nc, in page order
ListHttps(lst) == SelectSeq(lst, LAMBDA f : EndsWith(f, DotNc))

\* load_dataset, the source check and the listing
ResolveSource ==
    /\ pc = "source"
    /\ UNCHANGED env
    /\ IF IsUrl(source) /\ remote = "listing_silent"
       THEN \* requests.get(url) has no timeout: the call never returns
            /\ pc' = "blocked"
            /\ UNCHANGED <<file_list, i, filtered_files, datasets, ds, gi,
                           written, ds_all, result, err, profile_number>>
       ELSE IF IsUrl(source) /\ remote = "listing_error"
       THEN Raise("HTTPError", "list_files_in_https_server")
       ELSE IF IsUrl(source) \/ IsDir(source)
       THEN /\ file_list' = IF IsUrl(source) THEN ListHttps(listing) ELSE listing
            /\ pc' = IF file_list' = <<>> THEN "load" ELSE "select"
            /\ UNCHANGED <<i, filtered_files, datasets, ds, gi, written, ds_all,
                           result, err,
                           profile_number>>
       ELSE Raise("ValueError", "load_dataset")

\* load_dataset, one pass of the loop over file_list
SelectFileParsingAll ==
    /\ pc = "select"
    /\ i <= Len(file_list)
    /\ UNCHANGED env
    /\ LET file == file_list[i]
           parsed == ProfileNumber(file)
       IN  IF ~parsed.ok
           THEN Raise("ValueError", "load_dataset")
           ELSE /\ profile_number' = Some(parsed.val)
                /\ filtered_files' =
                      IF /\ EndsWith(file, DotNc)
                         /\ InRange(parsed.val, start_profile, end_profile)
                      THEN Append(filtered_files, file)
                      ELSE filtered_files
                /\ i' = i + 1
                /\ pc' = IF i = Len(file_list) THEN "load" ELSE "select"
                /\ UNCHANGED <<file_list, datasets, ds, gi, written, ds_all,
                               result, err>>
SelectFile ==
    /\ pc = "select"
    /\ i <= Len(file_list)
    /\ UNCHANGED env
    /\ LET file == file_list[i]
           parsed == ProfileNumber(file)
       IN  IF EndsWith(file, DotNc) /\ ~parsed.ok
           THEN Raise("ValueError", "load_dataset")
           ELSE /\ profile_number' = IF EndsWith(file, DotNc)
                                     THEN Some(parsed.val) ELSE profile_number
                /\ filtered_files' =
                      IF /\ EndsWith(file, DotNc)
                         /\ InRange(parsed.val, start_profile, end_profile)
                      THEN Append(filtered_files, file)
                      ELSE filtered_files
                /\ i' = i + 1
                /\ pc' = IF i = Len(file_list) THEN "load" ELSE "select"
                /\ UNCHANGED <<file_list, datasets, ds, gi, written, ds_all,
                               result, err>>

\* load_dataset, the head of the loop over filtered_files: the file is opened
LoadDiveFromSource ==
    /\ pc = "load"
    /\ Len(datasets) < Len(filtered_files)
    /\ UNCHANGED env
    /\ LET file == filtered_files[Len(datasets) + 1]
       IN  IF IsUrl(source) /\ remote = "fetch_silent"
           THEN Raise("Timeout", "load_sample_dataset")
           ELSE IF ~disk[file].readable
           THEN RaiseNaming("OSError", "open_dataset", file)
           ELSE /\ ds' = disk[file].ds
                /\ written' = <<>>
                /\ gi' = 1
                /\ pc' = "repeat"
                /\ UNCHANGED <<file_list, i, filtered_files, datasets, ds_all,
                               result, err, profile_number>>
LoadDiveThenGps ==
    /\ pc = "load"
    /\ Len(datasets) < Len(filtered_files)
    /\ UNCHANGED env
    /\ LET file == filtered_files[Len(datasets) + 1]
       IN  IF IsUrl(source) /\ file \notin Registry
           THEN Raise("ValueError", "load_sample_dataset")
           ELSE IF ~disk[file].readable
           THEN Raise("OSError", "open_dataset")
           ELSE /\ ds' = disk[file].ds
                /\ written' = <<>>
                /\ gi' = 1
                /\ pc' = "gps"
                /\ UNCHANGED <<file_list, i, filtered_files, datasets, ds_all,
                               result, err, profile_number>>
LoadDive ==
    /\ pc = "load"
    /\ Len(datasets) < Len(filtered_files)
    /\ UNCHANGED env
    /\ LET file == filtered_files[Len(datasets) + 1]
       IN  IF IsUrl(source) /\ file \notin Registry
           THEN RaiseNaming("ValueError", "load_sample_dataset", file)
           ELSE IF IsUrl(source) /\ remote = "fetch_silent"
           THEN \* pooch downloads with its default timeout of 30 s
                Raise("Timeout", "load_sample_dataset")
           ELSE IF ~disk[file].readable
           THEN RaiseNaming("OSError", "open_dataset", file)
           ELSE /\ ds' = disk[file].ds
                /\ written' = <<>>
                /\ gi' = 1
                /\ pc' = "repeat"
                /\ UNCHANGED <<file_list, i, filtered_files, datasets, ds_all,
                               result, err,
                           profile_number>>

\* repeat_trajectory_vars(ds)
RepeatTrajectory ==
    /\ pc = "repeat"
    /\ UNCHANGED env
    /\ IF RepeatError(ds) # "none"
       THEN Raise(RepeatError(ds), "repeat_trajectory_vars")
       ELSE /\ ds' = RepeatTrajectoryVars(ds)
            /\ pc' = "gps"
            /\ UNCHANGED <<file_list, i, filtered_files, datasets, gi, written,
                           ds_all, result, err,
                           profile_number>>

\* add_gps_coordinates, up to the head of its loop: the three arrays are
\* created and the fix-axis arrays are read
GpsCreate ==
    /\ pc = "gps"
    /\ UNCHANGED env
    /\ IF SG \notin DimsOf(ds)
       THEN Raise("KeyError", "add_gps_coordinates")
       ELSE IF {"log_gps_time", "log_gps_lat", "log_gps_lon"} \ DOMAIN ds # {}
       THEN Raise("AttributeError", "add_gps_coordinates")
       ELSE /\ ds' = GpsNewVars(ds)
            /\ gi' = 1
            /\ pc' = IF ZipLen(ds) = 0 THEN "drop" ELSE "fix"
            /\ UNCHANGED <<file_list, i, filtered_files, datasets, written,
                           ds_all, result, err,
                           profile_number>>

\* add_gps_coordinates, one pass of its loop: fix gi is written
GpsFixKeepingLat ==
    /\ pc = "fix"
    /\ UNCHANGED env
    /\ IF "ctd_time" \notin DOMAIN ds
       THEN Raise("KeyError", "add_gps_coordinates")
       ELSE IF ds["ctd_time"].data = <<>>
       THEN Raise("ValueError", "add_gps_coordinates")
       ELSE LET gps_time == ds["log_gps_time"].data[gi]
                gps_lat == ds["log_gps_lat"].data[gi]
                gps_lon == ds["log_gps_lon"].data[gi]
                nearest_index == FindNearestIndex(ds, gps_time)
                kept == IF ds["gps_lat"].data[nearest_index] = NaN THEN gps_lat
                        ELSE ds["gps_lat"].data[nearest_index]
            IN  /\ ds' = SetItem(SetItem(SetItem(ds, "gps_lat", nearest_index, kept),
                                         "gps_lon", nearest_index, gps_lon),
                                 "gps_time", nearest_index, gps_time)
                /\ written' = Append(written, nearest_index)
                /\ gi' = gi + 1
                /\ pc' = IF gi = ZipLen(ds) THEN "drop" ELSE "fix"
                /\ UNCHANGED <<file_list, i, filtered_files, datasets, ds_all,
                               result, err, profile_number>>
GpsFix ==
    /\ pc = "fix"
    /\ UNCHANGED env
    /\ IF "ctd_time" \notin DOMAIN ds
       THEN Raise("KeyError", "add_gps_coordinates")
       ELSE IF ds["ctd_time"].data = <<>>
       THEN Raise("ValueError", "add_gps_coordinates")
       ELSE LET gps_time == ds["log_gps_time"].data[gi]
                gps_lat == ds["log_gps_lat"].data[gi]
                gps_lon == ds["log_gps_lon"].data[gi]
                nearest_index == FindNearestIndex(ds, gps_time)
            IN  /\ ds' = SetItem(SetItem(SetItem(ds, "gps_lat", nearest_index, gps_lat),
                                         "gps_lon", nearest_index, gps_lon),
                                 "gps_time", nearest_index, gps_time)
                /\ written' = Append(written, nearest_index)
                /\ gi' = gi + 1
                /\ pc' = IF gi = ZipLen(ds) THEN "drop" ELSE "fix"
                /\ UNCHANGED <<file_list, i, filtered_files, datasets, ds_all,
                               result, err,
                           profile_number>>

\* load_dataset, the end of the loop over filtered_files: drop_dims and append
DropAppendMerging ==
    /\ pc = "drop"
    /\ UNCHANGED env
    /\ datasets' = Append(datasets, DropDims(ds, DimsOf(ds) \ {SG}))
    /\ ds_all' = Concat(datasets')
    /\ pc' = "load"
    /\ UNCHANGED <<file_list, i, filtered_files, ds, gi, written, result, err,
                   profile_number>>
DropAppendRecorded ==
    /\ pc = "drop"
    /\ UNCHANGED <<source, listing, start_profile, end_profile, disk, remote>>
    /\ vocab' = [vocab EXCEPT !.vars_to_remove = Append(@, "log_gps_time")]
    /\ datasets' = Append(datasets, DropDims(ds, DimsOf(ds) \ {SG}))
    /\ pc' = "load"
    /\ UNCHANGED <<file_list, i, filtered_files, ds, gi, written, ds_all,
                   result, err, profile_number>>
DropAppend ==
    /\ pc = "drop"
    /\ UNCHANGED env
    /\ datasets' = Append(datasets, DropDims(ds, DimsOf(ds) \ {SG}))
    /\ pc' = "load"
    /\ UNCHANGED <<file_list, i, filtered_files, ds, gi, written, ds_all,
                   result, err,
                           profile_number>>

\* the datasets do not all hold the same variables
VarSetsDiffer(dss) ==
    \E a, b \in 1..Len(dss) : DOMAIN dss[a] # DOMAIN dss[b]

\* xr.concat(datasets, dim="sg_data_point").  What xarray does with a variable
\* that some of the datasets lack depends on the xarray installed: from
\* 2023.01 on the variable is filled with NaN where it is missing, before that
\* ValueError is raised; the package does not say which xarray it needs.
\* An empty list raises ValueError in every xarray.
ConcatAllOfNothing ==
    /\ pc = "load"
    /\ Len(datasets) = Len(filtered_files)
    /\ UNCHANGED env
    /\ ds_all' = IF datasets = <<>>
                 THEN ("ctd_time" :> Var(<<SG>>, <<0>>, <<>>, NoAttrs))
                 ELSE Concat(datasets)
    /\ pc' = "sort"
    /\ UNCHANGED <<file_list, i, filtered_files, datasets, ds, gi, written,
                   result, err, profile_number>>
ConcatAll ==
    /\ pc = "load"
    /\ Len(datasets) = Len(filtered_files)
    /\ UNCHANGED env
    /\ IF datasets = <<>>
       THEN Raise("ValueError", "concat")
       ELSE \/ /\ ds_all' = Concat(datasets)
               /\ pc' = "sort"
               /\ UNCHANGED <<file_list, i, filtered_files, datasets, ds, gi,
                              written, result, err, profile_number>>
            \/ /\ VarSetsDiffer(datasets)
               /\ Raise("ValueError", "concat")

\* ds_all.sortby("ctd_time") and the return
SortReturn ==
    /\ pc = "sort"
    /\ UNCHANGED env
    /\ IF "ctd_time" \notin DOMAIN ds_all
       THEN Raise("KeyError", "sortby")
       ELSE /\ ds_all' = SortBy(ds_all, "ctd_time")
            /\ result' = <<ds_all'>>
            /\ pc' = "done"
            /\ UNCHANGED <<file_list, i, filtered_files, datasets, ds, gi,
                           written, err,
                           profile_number>>

Next ==
    \/ ResolveSource
    \/ SelectFile
    \/ LoadDive
    \/ RepeatTrajectory
    \/ GpsCreate
    \/ GpsFix
    \/ DropAppend
    \/ ConcatAll
    \/ SortReturn

Spec == Init /\ [][Next]_vars

(* ======================= properties of the run ======================== *)
\* the sample times, fix times, and the three aligned arrays of the dive in hand
CtdTime == ds["ctd_time"].data
FixTime == ds["log_gps_time"].data
FixLat == ds["log_gps_lat"].data
FixLon == ds["log_gps_lon"].data
Aligned == {"gps_lat", "gps_lon", "gps_time"}

\* C1: every fix of the dive in hand was written at an index that minimises
\* |ctd_time[j] - fix_time| over the samples of the dive, the lowest such index
\* when several attain the minimum; the fix written last sits at that index.
C1_NearestLowestIndex ==
    /\ \A k \in 1..Len(written) :
          LET j == written[k]
              t == FixTime[k]
          IN  /\ j \in 1..Len(CtdTime)
              /\ \A m \in 1..Len(CtdTime) :
                    Abs(CtdTime[j] - t) <= Abs(CtdTime[m] - t)
              /\ \A m \in 1..(j - 1) : Abs(CtdTime[m] - t) > Abs(CtdTime[j] - t)
    /\ written # <<>> =>
          LET k == Len(written)
              j == written[k]
          IN  /\ ds["gps_lat"].data[j] = FixLat[k]
              /\ ds["gps_lon"].data[j] = FixLon[k]
              /\ ds["gps_time"].data[j] = FixTime[k]

\* a fix was written where a later sample is as near as the chosen one
C1_Witness ==
    /\ pc = "drop"
    /\ \E k \in 1..Len(written) : \E m \in (written[k] + 1)..Len(CtdTime) :
          Abs(CtdTime[m] - FixTime[k]) = Abs(CtdTime[written[k]] - FixTime[k])

RECURSIVE SumLen(_)
SumLen(files) ==
    IF files = <<>> THEN 0
    ELSE Len(disk[Head(files)].ds["ctd_time"].data) + SumLen(Tail(files))

\* C2: the trajectory returned for K >= 1 dives has a measurement axis of
\* length n_1 + ... + n_K (every variable has that length) and its ctd_time
\* is ascending: time[k] <= time[k+1] for every adjacent pair.
C2_LengthAndOrder ==
    pc = "done" =>
        LET t == result[1]
            time == t["ctd_time"].data
        IN  /\ Len(filtered_files) >= 1
            /\ \A n \in DOMAIN t :
                  /\ t[n].dims = <<SG>>
                  /\ t[n].shape = <<SumLen(filtered_files)>>
                  /\ Len(t[n].data) = SumLen(filtered_files)
            /\ \A k \in 1..(Len(time) - 1) : time[k] <= time[k + 1]

\* two dives were assembled whose concatenation was not in time order
C2_Witness ==
    /\ pc = "done"
    /\ Len(filtered_files) = 2
    /\ LET cat == ConcatData(datasets, "ctd_time")
       IN  \E k \in 1..(Len(cat) - 1) : cat[k] > cat[k + 1]

Range(s) == {s[k] : k \in 1..Len(s)}
NonMissing(a) == {j \in 1..Len(a) : a[j] # NaN}

\* C3: after alignment of a dive with N samples and F fixes each aligned array
\* has length N, holds the missing value wherever no fix was mapped, and has F
\* non-missing entries when the fixes map to distinct indices, fewer otherwise.
C3_AlignedArrays ==
    pc = "drop" =>
        \A a \in Aligned :
            /\ ds[a].dims = <<SG>>
            /\ ds[a].shape = <<DimSize(ds, SG)>>
            /\ Len(ds[a].data) = DimSize(ds, SG)
            /\ \A j \in 1..Len(ds[a].data) :
                  j \notin Range(written) => ds[a].data[j] = NaN
            /\ (Cardinality(Range(written)) = Len(FixTime)
                  => Cardinality(NonMissing(ds[a].data)) = Len(FixTime))
            /\ (Cardinality(Range(written)) < Len(FixTime)
                  => Cardinality(NonMissing(ds[a].data)) < Len(FixTime))

\* alignment ended with two fixes on one index, and an index no fix mapped to
C3_Witness ==
    /\ pc = "drop"
    /\ Len(written) = 2
    /\ written[1] = written[2]
    /\ Len(CtdTime) >= 2

\* the first loop of load_dataset ran to its end
SelectionDone ==
    /\ pc \notin {"source", "select", "blocked"}
    /\ ~(pc = "error" /\ err.at \in {"load_dataset", "list_files_in_https_server"})

Listed(f) == \E k \in 1..Len(file_list) : file_list[k] = f
Filtered(f) == \E k \in 1..Len(filtered_files) : filtered_files[k] = f

\* C4: once selection is done a listed file is selected iff its name ends in
\* .nc and its profile number p has start_profile <= p when start_profile is
\* not None and p <= end_profile when end_profile is not None (0 is a bound);
\* files 5, 15, 25 with the range 10..20 select the file numbered 15 alone.
C4_InclusiveRange ==
    SelectionDone =>
        /\ \A f \in AllNames :
              Filtered(f) <=>
                  /\ Listed(f)
                  /\ EndsWith(f, DotNc)
                  /\ start_profile # None => start_profile[1] <= ProfileNumber(f).val
                  /\ end_profile # None => ProfileNumber(f).val <= end_profile[1]
        /\ (file_list = <<F5, F15, F25>> /\ start_profile = Some(10)
               /\ end_profile = Some(20)) => filtered_files = <<F15>>

\* files 5, 15, 25 were filtered with the range 10..20
C4_Witness ==
    /\ SelectionDone
    /\ file_list = <<F5, F15, F25>>
    /\ start_profile = Some(10)
    /\ end_profile = Some(20)
    /\ filtered_files = <<F15>>

\* what makes a stage fail for a file f of the directory
StageFails(f) ==
    \/ IsUrl(source) /\ f \notin Registry
    \/ ~disk[f].readable
    \/ LET d == disk[f].ds
       IN  \/ "trajectory" \notin DOMAIN d
           \/ "comment" \notin DOMAIN d["trajectory"].attrs
           \/ SG \notin DimsOf(d)
           \/ d["trajectory"].shape \notin {<<>>, <<1>>, <<DimSize(d, SG)>>}
           \/ {"log_gps_time", "log_gps_lat", "log_gps_lon"} \ DOMAIN d # {}
           \/ d["log_gps_time"].data # <<>>
                /\ ("ctd_time" \notin DOMAIN d \/ d["ctd_time"].data = <<>>)
           \/ "ctd_time" \notin DOMAIN d

\* C5: a run that ended in an exception returned nothing; a run that returned
\* a trajectory raised nothing, every selected file went through every stage
\* without failure and gave one dive record.
C5_FailFast ==
    /\ pc = "error" => result = <<>> /\ err # NoErr
    /\ result # <<>> =>
          /\ pc = "done"
          /\ err = NoErr
          /\ Len(datasets) = Len(filtered_files)
          /\ \A k \in 1..Len(filtered_files) : ~StageFails(filtered_files[k])
          /\ \A f \in AllNames :
                Listed(f) /\ EndsWith(f, DotNc) => ProfileNumber(f).ok

\* a stage failed after an earlier dive had been loaded, aligned and reconciled
C5_Witness ==
    /\ pc = "error"
    /\ Len(datasets) >= 1
    /\ result = <<>>

\* the last fix, in fix-axis order, that was written at index j
LastAt(j) == CHOOSE k \in 1..Len(written) :
                 written[k] = j /\ \A m \in (k + 1)..Len(written) : written[m] # j

\* C6: after alignment, an index that several fixes were mapped to holds the
\* latitude, longitude and time of the last of them in fix-axis order.
C6_LastFixWins ==
    pc = "drop" =>
        \A j \in Range(written) :
            /\ ds["gps_lat"].data[j] = FixLat[LastAt(j)]
            /\ ds["gps_lon"].data[j] = FixLon[LastAt(j)]
            /\ ds["gps_time"].data[j] = FixTime[LastAt(j)]

\* two fixes with different times were mapped to one index
C6_Witness ==
    /\ pc = "drop"
    /\ Len(written) = 2
    /\ written[1] = written[2]
    /\ FixTime[1] # FixTime[2]
    /\ FixLat[1] # FixLat[2]

\* the place in filtered_files of the dive a row of the trajectory comes from
\* (the dives of a run have different trajectory identifiers)
DiveOf(row) ==
    CHOOSE k \in 1..Len(filtered_files) :
        Len(filtered_files) = 1
        \/ disk[filtered_files[k]].ds["trajectory"].data[1]
             = result[1]["trajectory"].data[row]

\* C7: in the trajectory returned, two rows of equal ctd_time stand in the
\* order of the concatenation: the row of the earlier dive first, and of two
\* rows of one dive the one of the lower measurement index first.
C7_StableSort ==
    pc = "done" =>
        LET t == result[1]
            time == t["ctd_time"].data
            index == t["temperature"].data
        IN  \A a, b \in 1..Len(time) :
                a < b /\ time[a] = time[b] =>
                    \/ DiveOf(a) < DiveOf(b)
                    \/ DiveOf(a) = DiveOf(b) /\ index[a] < index[b]

\* equal times met within one dive and across two dives
C7_Witness ==
    /\ pc = "done"
    /\ Len(filtered_files) = 2
    /\ LET time == result[1]["ctd_time"].data
       IN  /\ \E a, b \in 1..Len(time) :
                 a < b /\ time[a] = time[b] /\ DiveOf(a) < DiveOf(b)
           /\ \E a, b \in 1..Len(time) :
                 a < b /\ time[a] = time[b] /\ DiveOf(a) = DiveOf(b)

\* the drop step has run on the dive in hand, ds, and appended its result
Dropped == pc \in {"load", "sort", "done"} /\ datasets # <<>>
LastDataset == datasets[Len(datasets)]

\* C8 as claimed: after the drop step every remaining variable is along the
\* measurement axis and every variable along the measurement axis is kept.
C8_DropsAllWithoutAxis ==
    Dropped =>
        /\ \A n \in DOMAIN LastDataset : UsesDim(LastDataset[n], SG)
        /\ \A n \in DOMAIN ds : UsesDim(ds[n], SG) => n \in DOMAIN LastDataset

\* C8: the drop step removes exactly the variables that use a dimension other
\* than the measurement axis: what remains has no other dimension (variables
\* without dimensions are kept), and every such variable is kept unchanged.
C8_DropsOtherDims ==
    Dropped =>
        /\ DOMAIN LastDataset =
              {n \in DOMAIN ds : \A k \in 1..Len(ds[n].dims) : ds[n].dims[k] = SG}
        /\ \A n \in DOMAIN LastDataset : LastDataset[n] = ds[n]

\* a dive with a dimensionless variable, a fix-axis variable and a variable
\* along the measurement axis and another dimension went through the drop step
C8_Witness ==
    /\ Dropped
    /\ {"log_D_TGT", "gc_st_secs", "spectra", "log_gps_lat"} \subseteq DOMAIN ds
    /\ "log_D_TGT" \in DOMAIN LastDataset
    /\ "spectra" \notin DOMAIN LastDataset

\* the file of the dive in hand, as it is on disk
Raw == disk[filtered_files[Len(datasets) + 1]].ds

\* C9: a trajectory variable holding a single value v with comment c is, after
\* repeat_trajectory_vars, along the measurement axis with length N, holds v
\* at every position, and has the comment c.
C9_RepeatSingleValue ==
    (pc = "gps" /\ Len(Raw["trajectory"].data) = 1) =>
        LET t == ds["trajectory"]
            n == DimSize(Raw, SG)
        IN  /\ t.dims = <<SG>>
            /\ t.shape = <<n>>
            /\ Len(t.data) = n
            /\ \A k \in 1..n : t.data[k] = Raw["trajectory"].data[1]
            /\ "comment" \in DOMAIN t.attrs
            /\ t.attrs["comment"] = Raw["trajectory"].attrs["comment"]

\* a single value was repeated along an axis of two or more samples
C9_Witness ==
    /\ pc = "gps"
    /\ Raw["trajectory"].shape = <<1>>
    /\ Len(ds["trajectory"].data) >= 2

\* C10 as claimed: repeat_trajectory_vars never fails on a trajectory variable
\* with a comment whose length k has 1 <= k <= N.
C10_AnyLengthRepairs ==
    ~ /\ pc = "error"
      /\ err.at = "repeat_trajectory_vars"
      /\ "trajectory" \in DOMAIN ds
      /\ "comment" \in DOMAIN ds["trajectory"].attrs
      /\ SG \in DimsOf(ds)
      /\ Len(ds["trajectory"].shape) = 1
      /\ 1 <= ds["trajectory"].shape[1]
      /\ ds["trajectory"].shape[1] <= DimSize(ds, SG)

\* C11 as claimed: when the dive records to assemble do not all hold the same
\* variables the assembly fails: no trajectory is returned in which the
\* variable a dive lacks is filled with the missing value.
C11_MismatchFails ==
    pc = "done" => ~VarSetsDiffer(datasets)

\* C12: when selection ends with no file selected (no listed name ends in .nc,
\* or the profile range selects none) the run returns nothing: the next step
\* is xr.concat of the empty list, which raises ValueError and ends the run.
C12_EmptyInputFails ==
    /\ [](SelectionDone /\ filtered_files = <<>> =>
            /\ pc \in {"load", "error"}
            /\ result = <<>>
            /\ pc = "error" => err = Exc("ValueError", "concat"))
    /\ [][pc = "load" /\ filtered_files = <<>> =>
            pc' = "error" /\ err' = Exc("ValueError", "concat")]_vars

\* a range with start above end selected none of the listed .nc files, and
\* the run ended in the exception of xr.concat
C12_Witness ==
    /\ pc = "error"
    /\ err = Exc("ValueError", "concat")
    /\ filtered_files = <<>>
    /\ start_profile = Some(20)
    /\ end_profile = Some(10)
    /\ \E k \in 1..Len(file_list) : EndsWith(file_list[k], DotNc)

\* a time before every sample time, after every sample time, of the dive in hand
Before(t) == CtdTime # <<>> /\ \A m \in 1..Len(CtdTime) : t < CtdTime[m]
After(t) == CtdTime # <<>> /\ \A m \in 1..Len(CtdTime) : CtdTime[m] < t
StrictlyIncreasing(a) == \A k \in 1..(Len(a) - 1) : a[k] < a[k + 1]

\* C13 as claimed: a fix whose time is before the earliest or after the latest
\* sample time of its dive is written at the first or at the last sample of
\* the measurement axis.
C13_FirstOrLast ==
    \A k \in 1..Len(written) :
        Before(FixTime[k]) \/ After(FixTime[k]) =>
            written[k] \in {1, Len(CtdTime)}

\* C13: a fix whose time is before the earliest (after the latest) sample time
\* of its dive raises no error and is written at the lowest index that holds
\* the earliest (latest) sample time; when the sample times are strictly
\* increasing along the axis that is the first (last) sample.
C13_NearestExtreme ==
    /\ \A k \in 1..Len(written) :
          LET j == written[k]
              t == FixTime[k]
          IN  /\ Before(t) => \A m \in 1..Len(CtdTime) : CtdTime[j] <= CtdTime[m]
              /\ After(t) => \A m \in 1..Len(CtdTime) : CtdTime[m] <= CtdTime[j]
              /\ Before(t) \/ After(t) =>
                    \A m \in 1..(j - 1) : CtdTime[m] # CtdTime[j]
              /\ Before(t) /\ StrictlyIncreasing(CtdTime) => j = 1
              /\ After(t) /\ StrictlyIncreasing(CtdTime) => j = Len(CtdTime)
    /\ pc = "drop" => Len(written) = ZipLen(ds)
    /\ pc = "error" /\ err.at = "add_gps_coordinates" =>
          \/ SG \notin DimsOf(ds)
          \/ {"log_gps_time", "log_gps_lat", "log_gps_lon"} \ DOMAIN ds # {}
          \/ "ctd_time" \notin DOMAIN ds
          \/ CtdTime = <<>>

\* a fix later than every sample of a dive with strictly increasing sample
\* times was written at the last of two or more samples
C13_Witness ==
    /\ pc = "drop"
    /\ "ctd_time" \in DOMAIN ds
    /\ Len(CtdTime) >= 2
    /\ StrictlyIncreasing(CtdTime)
    /\ \E k \in 1..Len(written) :
          After(FixTime[k]) /\ written[k] = Len(CtdTime)

\* C14: a source that is neither an http(s) URL nor an existing directory ends
\* the run with ValueError at the source check: nothing was listed, no profile
\* number parsed, no file selected or loaded, no dive transformed, nothing
\* returned.
C14_InvalidSourceFails ==
    source = "other" =>
        /\ pc \in {"source", "error"}
        /\ pc = "error" => err = Exc("ValueError", "load_dataset")
        /\ file_list = <<>>
        /\ profile_number = None
        /\ filtered_files = <<>>
        /\ datasets = <<>>
        /\ ds = NoVars
        /\ ds_all = NoVars
        /\ result = <<>>

\* the run on such a source, whose listing would have held .nc files, ended
C14_Witness ==
    /\ source = "other"
    /\ pc = "error"
    /\ err = Exc("ValueError", "load_dataset")
    /\ \E k \in 1..Len(listing) : EndsWith(listing[k], DotNc)

\* the profile number of each well-formed name of the model, read off the name
\* by hand, and the names ending in .nc that hold no number where one is read
ExpectedNumber ==
    (F5 :> 5) @@ (F15 :> 15) @@ (F25 :> 25) @@ (F500 :> 500) @@ (FNeg :> -3)
Malformed == {FBad, FNoSep, FShort}

\* C15: the profile number of a listed name ending in .nc is the integer
\* written from its fifth character up to the first "_"
\* (p0150500_20050213.nc gives 500); a name where that is no integer is never
\* passed over: selection stops there and the run ends with ValueError,
\* nothing loaded and nothing returned.
C15_ProfileNumberOrFail ==
    /\ \A k \in 1..(i - 1) :
          EndsWith(file_list[k], DotNc) => file_list[k] \in DOMAIN ExpectedNumber
    /\ (i > 1 /\ EndsWith(file_list[i - 1], DotNc)) =>
          profile_number = Some(ExpectedNumber[file_list[i - 1]])
    /\ (pc \notin {"source", "select"} /\ i <= Len(file_list)) =>
          /\ file_list[i] \in Malformed
          /\ pc = "error"
          /\ err = Exc("ValueError", "load_dataset")
          /\ datasets = <<>>
          /\ result = <<>>
    /\ (pc = "error" /\ err.at = "load_dataset" /\ source = "dir") =>
          i <= Len(file_list)

\* p0150500_20050213.nc was given the number 500 and selected, and the run
\* ended at the next name, which has no "_"
C15_Witness ==
    /\ pc = "error"
    /\ file_list = <<F500, FNoSep>>
    /\ i = 2
    /\ profile_number = Some(500)
    /\ filtered_files = <<F500>>

\* the place of a name in the listing (a listing holds a name once)
PosInListing(f) == CHOOSE k \in 1..Len(listing) : listing[k] = f
\* the trajectory identifiers of the file at place k of filtered_files, and
\* the place of the file that holds an identifier
IdsOf(k) == Range(disk[filtered_files[k]].ds["trajectory"].data)
BlockOf(id) == CHOOSE k \in 1..Len(filtered_files) : id \in IdsOf(k)

\* C16: the selected files are listed files, in the order of the listing and
\* each once (a directory's file_list is the listing itself, unsorted); dive
\* record k comes from selected file k, and the concatenation holds the rows
\* of the dives in that order.
C16_ListingOrder ==
    /\ (pc # "source" /\ IsDir(source)) => file_list = listing
    /\ \A a \in 1..Len(filtered_files) :
          \E k \in 1..Len(listing) : listing[k] = filtered_files[a]
    /\ \A a, b \in 1..Len(filtered_files) :
          a < b => PosInListing(filtered_files[a]) < PosInListing(filtered_files[b])
    /\ \A k \in 1..Len(datasets) :
          Range(datasets[k]["trajectory"].data) \subseteq IdsOf(k)
    /\ pc = "sort" =>
          LET ids == ds_all["trajectory"].data
          IN  \A a, b \in 1..Len(ids) : a < b => BlockOf(ids[a]) <= BlockOf(ids[b])

\* the listing holds the file numbered 15 before the file numbered 5; both
\* were selected and the concatenation starts with the rows of dive 15
C16_Witness ==
    /\ pc = "sort"
    /\ filtered_files = <<F15, F5>>
    /\ LET ids == ds_all["trajectory"].data
       IN  Len(ids) >= 2 /\ ids[1] = 15 /\ ids[Len(ids)] = 5

\* the variables load_dataset reads by name from every dive
Required == {"log_gps_time", "log_gps_lat", "log_gps_lon", "ctd_time"}

\* C17 as claimed: on a dive that lacks one of the fix time, fix latitude, fix
\* longitude and sample time variables add_gps_coordinates never runs to its
\* end, and no trajectory is returned from such a dive.
C17_LackingDiveNeverAligned ==
    /\ pc = "drop" => Required \subseteq DOMAIN Raw
    /\ pc = "done" =>
          \A k \in 1..Len(filtered_files) :
              Required \subseteq DOMAIN disk[filtered_files[k]].ds

\* C18: dive A with sample times 100, 200, 300 and a fix (150, 10, 20), dive B
\* with sample times 50, 250 and a fix (60, 30, 40): the fix at 150 is written
\* at A's first sample (time 100, the lower index of the tie), the fix at 60 at
\* B's first sample; the run returns a trajectory of length 5 with times
\* 50, 100, 200, 250, 300 whose aligned latitude and longitude are 30, 40 at
\* time 50, 10, 20 at time 100, and missing elsewhere.
C18_TwoDives ==
    disk = TwoDives =>
        /\ pc # "error"
        /\ (pc = "drop" /\ Raw = DiveA) =>
              /\ written = <<1>>
              /\ ds["gps_lat"].data = <<10, NaN, NaN>>
              /\ ds["gps_lon"].data = <<20, NaN, NaN>>
        /\ (pc = "drop" /\ Raw = DiveB) =>
              /\ written = <<1>>
              /\ ds["gps_lat"].data = <<30, NaN>>
              /\ ds["gps_lon"].data = <<40, NaN>>
        /\ pc = "done" =>
              LET t == result[1]
              IN  /\ t["ctd_time"].shape = <<5>>
                  /\ t["ctd_time"].data = <<50, 100, 200, 250, 300>>
                  /\ t["gps_lat"].data = <<30, 10, NaN, NaN, NaN>>
                  /\ t["gps_lon"].data = <<40, 20, NaN, NaN, NaN>>
                  /\ t["gps_time"].data = <<60, 150, NaN, NaN, NaN>>

\* the two dives, listed A before B, were assembled and returned
C18_Witness ==
    /\ disk = TwoDives
    /\ listing = <<F5, F15>>
    /\ pc = "done"
    /\ Len(datasets) = 2

\* C19: at every point of a run the vocabulary tables (dimension rename,
\* preferred units, unit string formats, unit conversions, standard names,
\* variables to remove, attribute order, the three loaded attribute documents)
\* are what they were when the module was imported: no step of load_dataset
\* writes to them.
C19_VocabulariesUntouched ==
    /\ [](vocab = Vocabularies)
    /\ [][vocab' = vocab]_vars

\* a run that took every step (two dives listed, loaded, repaired, aligned,
\* reconciled, assembled, sorted, returned) ended with the tables as imported
C19_Witness ==
    /\ pc = "done"
    /\ Len(file_list) >= 2
    /\ Len(datasets) >= 2
    /\ \E k \in 1..Len(datasets) : Len(datasets[k]["gps_lat"].data) >= 1
    /\ vocab = Vocabularies
    /\ vocab.unit_conversion["dbar"].units_name = "kPa"

\* the trajectory variable of the dive in hand is along the measurement axis
Repaired == "trajectory" \in DOMAIN ds /\ ds["trajectory"].dims = <<SG>>
\* every variable of the file but the trajectory variable is in hand, unchanged
NothingDropped == \A n \in DOMAIN Raw \ {"trajectory"} : n \in DOMAIN ds /\ ds[n] = Raw[n]

\* C20 as claimed: GPS alignment runs before the trajectory repair: when
\* add_gps_coordinates starts on a dive its trajectory variable is still as
\* it was loaded.
C20_GpsBeforeRepair ==
    pc = "gps" => "trajectory" \in DOMAIN ds /\ ds["trajectory"] = Raw["trajectory"]

\* C20: per dive the order is repair, GPS alignment, drop: the repair starts
\* on the file as loaded; add_gps_coordinates starts on the repaired dive,
\* before any aligned array exists; until the drop step no other variable of
\* the file is changed or removed; the drop step runs once every fix is
\* written, and what it appends holds the repaired trajectory variable and
\* the aligned arrays.
C20_RepairGpsDrop ==
    /\ pc = "repeat" => ds = Raw
    /\ pc = "gps" => Repaired /\ NothingDropped /\ Aligned \cap DOMAIN ds = {}
    /\ pc \in {"fix", "drop"} =>
          Repaired /\ NothingDropped /\ Aligned \subseteq DOMAIN ds
    /\ pc = "fix" => Len(written) < ZipLen(ds)
    /\ pc = "drop" => Len(written) = ZipLen(ds)
    /\ Dropped =>
          /\ Repaired
          /\ Aligned \subseteq DOMAIN ds
          /\ Len(written) = ZipLen(ds)
          /\ \A n \in Aligned \cup {"trajectory"} :
                n \in DOMAIN LastDataset /\ LastDataset[n] = ds[n]

\* a dive whose file held a fix-axis variable, a variable on another axis and
\* a single trajectory value was repaired, aligned with one fix, and dropped
C20_Witness ==
    /\ Dropped
    /\ Len(written) = 1
    /\ "gc_st_secs" \in DOMAIN ds
    /\ "gc_st_secs" \notin DOMAIN LastDataset
    /\ Len(LastDataset["trajectory"].data) >= 1
    /\ NonMissing(LastDataset["gps_lat"].data) # {}

\* C21: ds_all exists only once every selected file has given its dive record:
\* while a dive is loaded, repaired, aligned or reconciled, and between two
\* dives, there is no ds_all and nothing is returned; a run that ends in an
\* exception before the concatenation leaves no ds_all, returns nothing, and
\* the dive records appended so far are whole (repaired, aligned, reconciled).
C21_AssembledLast ==
    /\ (ds_all # NoVars \/ result # <<>>) =>
          /\ Len(datasets) = Len(filtered_files)
          /\ pc \in {"sort", "done", "error"}
          /\ pc = "error" => err.at = "sortby"
    /\ pc \in {"source", "select", "load", "repeat", "gps", "fix", "drop"} =>
          ds_all = NoVars /\ result = <<>>
    /\ (pc = "error" /\ err.at # "sortby") => ds_all = NoVars /\ result = <<>>
    /\ \A k \in 1..Len(datasets) :
          /\ Aligned \cup {"trajectory"} \subseteq DOMAIN datasets[k]
          /\ \A n \in DOMAIN datasets[k] :
                \A d \in 1..Len(datasets[k][n].dims) : datasets[k][n].dims[d] = SG

\* the run is between two dives: the first is reconciled, the second not yet
\* loaded, and there is no trajectory
C21_Witness ==
    /\ pc = "load"
    /\ Len(filtered_files) = 2
    /\ Len(datasets) = 1
    /\ Len(datasets[1]["ctd_time"].data) >= 1
    /\ ds_all = NoVars
    /\ result = <<>>

\* C22 as claimed: with a remote source whose server never answers the listing
\* request, a run that has left the source check has ended in an exception.
C22_ListingTimesOut ==
    (IsUrl(source) /\ remote = "listing_silent") => pc \in {"source", "error"}

\* the file a failing step was working on: the name being parsed during
\* selection, the file of the dive in hand during the per-dive steps
FileAtFault ==
    IF err.at = "load_dataset" /\ i <= Len(file_list) THEN Some(file_list[i])
    ELSE IF err.at \in {"load_sample_dataset", "open_dataset",
                        "repeat_trajectory_vars", "add_gps_coordinates"}
    THEN Some(filtered_files[Len(datasets) + 1])
    ELSE None

\* C23 as claimed: an exception that ends the run while a file is being parsed,
\* loaded, repaired or aligned holds the name of that file.
C23_ErrorsNameTheFile ==
    (pc = "error" /\ FileAtFault # None) => err.file = FileAtFault[1]

\* row j of dive record k (a variable without dimension has its one value in
\* every row), row r of the trajectory returned, and the rows of the dives
DiveRow(k, j) ==
    [n \in DOMAIN datasets[k] |->
        IF datasets[k][n].dims = <<>> THEN datasets[k][n].data[1]
        ELSE datasets[k][n].data[j]]
TrajRow(r) == [n \in DOMAIN result[1] |-> result[1][n].data[r]]
DiveRows ==
    UNION {{<<k, j>> : j \in 1..Len(datasets[k]["trajectory"].data)} :
              k \in 1..Len(datasets)}

Orders == {p \in [1..Len(datasets) -> 1..Len(datasets)] :
              \A a, b \in 1..Len(datasets) : a # b => p[a] # p[b]}
Reordered(p) == [k \in 1..Len(datasets) |-> datasets[p[k]]]
ReturnedFor(p) == SortBy(Concat(Reordered(p)), "ctd_time")
Values(t) == [n \in DOMAIN t |-> t[n].data]
TimesDistinct ==
    LET cat == ConcatData(datasets, "ctd_time")
    IN  \A a, b \in 1..Len(cat) : a # b => cat[a] # cat[b]
\* two rows of different dive records have the same sample time
CrossTie ==
    \E a, b \in 1..Len(datasets) :
        /\ a # b
        /\ Range(datasets[a]["ctd_time"].data)
             \cap Range(datasets[b]["ctd_time"].data) # {}

\* C25 as claimed: when all sample times are pairwise distinct the trajectory
\* returned is the same, whole, for every order of the listing.
C25_SameForEveryOrder ==
    (pc = "done" /\ TimesDistinct) => \A p \in Orders : ReturnedFor(p) = result[1]

\* C25: when all sample times are pairwise distinct the values of every
\* variable of the trajectory returned are the same for every order of the
\* listing; the attributes of a variable are those of the first listed dive
\* that holds it; when two rows of two different dives have equal time the
\* values returned for the two orders of the listing differ.
C25_ValuesForEveryOrder ==
    pc = "done" =>
        /\ TimesDistinct =>
              \A p \in Orders : Values(ReturnedFor(p)) = Values(result[1])
        /\ \A n \in DOMAIN result[1] : \A k \in 1..Len(datasets) :
              (n \in DOMAIN datasets[k]
                 /\ \A m \in 1..(k - 1) : n \notin DOMAIN datasets[m])
              => result[1][n].attrs = datasets[k][n].attrs
        /\ (Len(datasets) = 2 /\ CrossTie) =>
              Values(ReturnedFor(<<2, 1>>)) # Values(result[1])

\* two dives with pairwise distinct sample times, three rows or more, whose
\* concatenation was not in time order, were assembled
C25_Witness ==
    /\ pc = "done"
    /\ Len(datasets) = 2
    /\ TimesDistinct
    /\ Len(result[1]["ctd_time"].data) >= 3
    /\ datasets[1]["ctd_time"].data # <<>>
    /\ datasets[2]["ctd_time"].data # <<>>
    /\ result[1]["ctd_time"].data # ConcatData(datasets, "ctd_time")

\* the names of file_list already gone through the first loop that end in .nc
ParsedSoFar == {k \in 1..(i - 1) : EndsWith(file_list[k], DotNc)}

\* C26: no dive is loaded before the first loop has gone through every listed
\* name, and then every listed name ending in .nc holds an integer; a name
\* ending in .nc that holds none ends the run during selection with nothing
\* loaded, whatever the profile range; a name not ending in .nc is not parsed
\* (profile_number stays as it was) and never ends the run.
C26_SelectionBeforeLoad ==
    /\ (pc \in {"load", "repeat", "gps", "fix", "drop", "sort", "done"}
          \/ datasets # <<>> \/ ds # NoVars) =>
          /\ i = Len(file_list) + 1
          /\ \A k \in 1..Len(file_list) :
                EndsWith(file_list[k], DotNc) => file_list[k] \in DOMAIN ExpectedNumber
    /\ pc \in {"source", "select", "blocked"} => datasets = <<>> /\ ds = NoVars
    /\ (pc = "error" /\ i <= Len(file_list)) =>
          /\ EndsWith(file_list[i], DotNc)
          /\ file_list[i] \in Malformed
          /\ datasets = <<>>
          /\ ds = NoVars
    /\ profile_number = None <=> ParsedSoFar = {}
    /\ ParsedSoFar # {} =>
          LET last == CHOOSE k \in ParsedSoFar : \A m \in ParsedSoFar : m <= k
          IN  profile_number = Some(ExpectedNumber[file_list[last]])

\* a name not ending in .nc that holds no integer was passed, and the run
\* ended at a later name ending in .nc that holds none, under a profile range
\* that selects no file
C26_Witness ==
    /\ pc = "error"
    /\ start_profile = Some(20)
    /\ end_profile = Some(10)
    /\ i <= Len(file_list)
    /\ file_list[i] = FBad
    /\ \E k \in 1..(i - 1) : file_list[k] = FTxt
    /\ \E k \in 1..(i - 1) : file_list[k] \in NcNames
    /\ filtered_files = <<>>
    /\ datasets = <<>>

C28_TripleOfOneFix ==
    pc \in {"fix", "drop"} =>
        \A j \in 1..DimSize(ds, SG) :
            \/ /\ j \notin Range(written)
               /\ \A a \in Aligned : ds[a].data[j] = NaN
            \/ \E k \in 1..Len(written) :
                  /\ written[k] = j
                  /\ ds["gps_lat"].data[j] = FixLat[k]
                  /\ ds["gps_lon"].data[j] = FixLon[k]
                  /\ ds["gps_time"].data[j] = FixTime[k]

\* two fixes of different latitude and longitude were written at one index of
\* a dive that has an index no fix was written at
C28_Witness ==
    /\ pc = "drop"
    /\ Len(written) = 2
    /\ written[1] = written[2]
    /\ FixLat[1] # FixLat[2]
    /\ FixLon[1] # FixLon[2]
    /\ \E j \in 1..DimSize(ds, SG) : j \notin Range(written)

\* C29: a step of add_gps_coordinates that does not raise leaves every
\* variable but gps_lat, gps_lon and gps_time as it was (its dimensions,
\* shape, values and attributes: ctd_time, the fix-axis arrays, and all
\* others), removes none, adds none but those three, and leaves the
\* dimensions and their lengths as they were; a dive with no fix leaves
\* add_gps_coordinates at once, without exception, with three arrays of the
\* length of the measurement axis that hold the missing value throughout.
C29_GpsFrame ==
    [][(pc \in {"gps", "fix"} /\ pc' # "error") =>
          /\ DOMAIN ds' = DOMAIN ds \cup Aligned
          /\ \A n \in DOMAIN ds \ Aligned : ds'[n] = ds[n]
          /\ DimsOf(ds') = DimsOf(ds)
          /\ \A d \in DimsOf(ds) : DimSize(ds', d) = DimSize(ds, d)
          /\ \A a \in Aligned :
                ds'[a].dims = <<SG>> /\ Len(ds'[a].data) = DimSize(ds, SG)
          /\ (pc = "gps" /\ ds["log_gps_time"].data = <<>>) =>
                /\ pc' = "drop"
                /\ \A a \in Aligned : NonMissing(ds'[a].data) = {}]_vars

\* a dive of two samples with no fix, a variable without dimension and a
\* variable on another axis left add_gps_coordinates with all-missing arrays
C29_Witness ==
    /\ pc = "drop"
    /\ ds["log_gps_time"].data = <<>>
    /\ DimSize(ds, SG) = 2
    /\ {"log_D_TGT", "gc_st_secs"} \subseteq DOMAIN ds
    /\ \A a \in Aligned : ds[a].data = <<NaN, NaN>>

\* C30: every entry of unit_conversion from a unit k to a unit u by a factor
\* f, where u is a key as well, is answered by the entry of u, which leads
\* back to k by a factor g with f * g = 1; the entry of Pa leads to dbar and
\* the entry of dbar back to Pa; and no key is written twice in the table.
C30_ConversionsInvert ==
    LET table == vocab.unit_conversion
    IN  /\ \A k \in DOMAIN table :
              table[k].units_name \in DOMAIN table =>
                  LET back == table[table[k].units_name]
                  IN  /\ back.units_name = k
                      /\ table[k].num * back.num = table[k].den * back.den
        /\ table["Pa"].units_name = "dbar"
        /\ table["dbar"].units_name = "Pa"
        /\ \A e1, e2 \in 1..Len(unit_conversion_items) :
              unit_conversion_items[e1][1] = unit_conversion_items[e2][1]
                  => e1 = e2

====
